---------------------------- MODULE Spec2Model ----------------------------
(***************************************************************************)
(* A model of belajar.py, the DocuChat Streamlit script.                   *)
(*                                                                         *)
(* One run of the script is one pass from line 1 to line 303.  A run that  *)
(* carries no question (a reset click, plain rerun) makes no external call *)
(* and is one action.  A run that carries a question is a turn: it is cut  *)
(* where the script waits (the sleeps, client construction, count_tokens,  *)
(* generate_content_stream, every chunk of the stream) and where control   *)
(* reaches the except clause.  A run in progress is stopped by the next    *)
(* input.                                                                  *)
(*                                                                         *)
(* Text is a TLA+ string; Python's + and f-strings are \o.  The two        *)
(* non-ASCII characters of the source are written as their Python escapes: *)
(* the warning sign of line 298 is "\\u26a0\\ufe0f", the cursor of line    *)
(* 287 is "\\u258c".  A file name is a sequence of one-character strings,  *)
(* a file's content a sequence of bytes (0..255).                          *)
(*                                                                         *)
(* Not modelled: the sidebar help texts, the language selector and the     *)
(* system instruction built from it (lines 38-43, 220-263).  The waits of  *)
(* lines 184 and 197 are the cuts between the assembly steps.              *)
(***************************************************************************)
EXTENDS Integers, Sequences, FiniteSets, TLC

(***************************************************************************)
(* Bounds of the model.                                                    *)
(***************************************************************************)
\* questions asked since the last reset
MaxTurns == 2
\* files in one upload, where every upload of the samples is tried
MaxFiles == 2
\* chunks of one stream, where every stream of the sample chunks is tried
MaxChunks == 3

(***************************************************************************)
(* Python's str and bytes operations used by the script.                   *)
(***************************************************************************)
\* chr(32) .. chr(126)
PrintableAscii == <<
    " ", "!", "\"", "#", "$", "%", "&", "'", "(", ")", "*", "+", ",", "-",
    ".", "/", "0", "1", "2", "3", "4", "5", "6", "7", "8", "9", ":", ";",
    "<", "=", ">", "?", "@", "A", "B", "C", "D", "E", "F", "G", "H", "I",
    "J", "K", "L", "M", "N", "O", "P", "Q", "R", "S", "T", "U", "V", "W",
    "X", "Y", "Z", "[", "\\", "]", "^", "_", "\\u{96}", "a", "b", "c", "d", "e",
    "f", "g", "h", "i", "j", "k", "l", "m", "n", "o", "p", "q", "r", "s",
    "t", "u", "v", "w", "x", "y", "z", "{", "|", "}", "~" >>

\* The character of a code point: itself for printable ASCII, tab, newline
\* and carriage return; any other code point (and the grave accent, which
\* a TLA+ string cannot hold) is written \u{<decimal>}.
Chr(cp) ==
    IF cp >= 32 /\ cp <= 126 THEN PrintableAscii[cp - 31]
    ELSE IF cp = 10 THEN "\n"
    ELSE IF cp = 9 THEN "\t"
    ELSE IF cp = 13 THEN "\r"
    ELSE "\\u{" \o ToString(cp) \o "}"

UpperToLower ==
    "A" :> "a" @@ "B" :> "b" @@ "C" :> "c" @@ "D" :> "d" @@ "E" :> "e" @@
    "F" :> "f" @@ "G" :> "g" @@ "H" :> "h" @@ "I" :> "i" @@ "J" :> "j" @@
    "K" :> "k" @@ "L" :> "l" @@ "M" :> "m" @@ "N" :> "n" @@ "O" :> "o" @@
    "P" :> "p" @@ "Q" :> "q" @@ "R" :> "r" @@ "S" :> "s" @@ "T" :> "t" @@
    "U" :> "u" @@ "V" :> "v" @@ "W" :> "w" @@ "X" :> "x" @@ "Y" :> "y" @@
    "Z" :> "z"

\* str.lower(), on ASCII names
Lower(name) ==
    [i \in 1..Len(name) |->
        IF name[i] \in DOMAIN UpperToLower THEN UpperToLower[name[i]]
        ELSE name[i]]

\* str.endswith()
EndsWith(s, suffix) ==
    /\ Len(s) >= Len(suffix)
    /\ SubSeq(s, Len(s) - Len(suffix) + 1, Len(s)) = suffix

\* the str a sequence of characters stands for
RECURSIVE Join(_)
Join(cs) == IF cs = <<>> THEN "" ELSE Head(cs) \o Join(Tail(cs))

HexDigits ==
    <<"0", "1", "2", "3", "4", "5", "6", "7",
      "8", "9", "a", "b", "c", "d", "e", "f">>

\* "%02x"
Hex2(b) == HexDigits[(b \div 16) + 1] \o HexDigits[(b % 16) + 1]

IsContinuation(b) == b >= 128 /\ b <= 191

\* str(UnicodeDecodeError): the bytes b[first..last] (1-based) are at fault.
DecodeErrorText(b, first, last, why) ==
    "'utf-8' codec can't decode "
    \o (IF first = last
        THEN "byte 0x" \o Hex2(b[first]) \o " in position "
             \o ToString(first - 1)
        ELSE "bytes in position " \o ToString(first - 1) \o "-"
             \o ToString(last - 1))
    \o ": " \o why

DecodeFailure(b, first, last, why) ==
    [ok |-> FALSE, text |-> "", error |-> DecodeErrorText(b, first, last, why)]

\* bytes.decode("utf-8") from byte i on, acc the text decoded so far: the
\* strict decoder (no overlong forms, no surrogates, nothing above U+10FFFF).
RECURSIVE Utf8Decode(_, _, _)
Utf8Decode(b, i, acc) ==
    IF i > Len(b) THEN [ok |-> TRUE, text |-> acc, error |-> ""]
    ELSE
    LET c == b[i]
        n == Len(b)
        End == DecodeFailure(b, i, n, "unexpected end of data")
        BadCont(k) == DecodeFailure(b, i, i + k - 1, "invalid continuation byte")
    IN
    IF c < 128 THEN Utf8Decode(b, i + 1, acc \o Chr(c))
    ELSE IF c < 194 \/ c > 244 THEN DecodeFailure(b, i, i, "invalid start byte")
    ELSE IF c < 224 THEN
        IF n < i + 1 THEN End
        ELSE IF ~IsContinuation(b[i + 1]) THEN BadCont(1)
        ELSE Utf8Decode(b, i + 2,
                 acc \o Chr((c - 192) * 64 + (b[i + 1] - 128)))
    ELSE IF c < 240 THEN
        IF n < i + 1 THEN End
        ELSE IF \/ ~IsContinuation(b[i + 1])
                \/ (c = 224 /\ b[i + 1] < 160)
                \/ (c = 237 /\ b[i + 1] >= 160) THEN BadCont(1)
        ELSE IF n < i + 2 THEN End
        ELSE IF ~IsContinuation(b[i + 2]) THEN BadCont(2)
        ELSE Utf8Decode(b, i + 3,
                 acc \o Chr((c - 224) * 4096 + (b[i + 1] - 128) * 64
                            + (b[i + 2] - 128)))
    ELSE
        IF n < i + 1 THEN End
        ELSE IF \/ ~IsContinuation(b[i + 1])
                \/ (c = 240 /\ b[i + 1] < 144)
                \/ (c = 244 /\ b[i + 1] >= 144) THEN BadCont(1)
        ELSE IF n < i + 2 THEN End
        ELSE IF ~IsContinuation(b[i + 2]) THEN BadCont(2)
        ELSE IF n < i + 3 THEN End
        ELSE IF ~IsContinuation(b[i + 3]) THEN BadCont(3)
        ELSE Utf8Decode(b, i + 4,
                 acc \o Chr((c - 240) * 262144 + (b[i + 1] - 128) * 4096
                            + (b[i + 2] - 128) * 64 + (b[i + 3] - 128)))

\* uploaded_file.getvalue().decode("utf-8")
Decode(bytes) == Utf8Decode(bytes, 1, "")


(***************************************************************************)
(* The inputs of a run.                                                    *)
(***************************************************************************)
\* what st.text_input returns (line 33)
Keys == {"", "k"}

\* what st.chat_input returns when a question is submitted (line 138)
Prompts == {"q1", "q2"}

UploadedFile(name, bytes) == [name |-> name, data |-> bytes]

ReportPdf == UploadedFile(<<"R", ".", "P", "d", "f">>, <<37, 80, 255>>)
NotesMd   == UploadedFile(<<"N", ".", "M", "d">>, <<72, 105>>)
CafeTxt   == UploadedFile(<<"c", ".", "t", "x", "t">>, <<195, 169>>)
DataCsv   == UploadedFile(<<"d", ".", "c", "s", "v">>, <<72, 105>>)
BadTxt    == UploadedFile(<<"b", ".", "t", "x", "t">>, <<72, 255>>)
CutMd     == UploadedFile(<<"x", ".", "m", "d">>, <<195>>)

\* what st.file_uploader returns (line 51); None is the empty list
Uploads ==
    { <<>>,
      <<ReportPdf, NotesMd>>,
      <<NotesMd, ReportPdf>>,
      <<DataCsv, CafeTxt>>,
      <<ReportPdf, DataCsv, CafeTxt>>,
      <<BadTxt>>,
      <<NotesMd, CutMd, ReportPdf>> }

Samples == {ReportPdf, NotesMd, CafeTxt, DataCsv, BadTxt, CutMd}

\* every upload of at most MaxFiles sample files
AnyUploads == UNION {[1..n -> Samples] : n \in 0..MaxFiles}

\* str(e) of an exception the SDK raises
ApiErrors == {"503 UNAVAILABLE"}

\* count_resp.total_tokens
TokenCounts == {12, 900}

\* A chunk of the stream: reading chunk.text gives a str, gives None, or
\* raises.
TextChunk(s) == [kind |-> "text", text |-> s]
NoneChunk    == [kind |-> "none", text |-> ""]
RaisingChunk == [kind |-> "raises", text |-> ""]

\* the chunk sequences generate_content_stream may deliver
Streams ==
    { <<>>,
      <<TextChunk("Hel"), TextChunk("lo")>>,
      <<TextChunk("lo"), TextChunk("Hel")>>,
      <<TextChunk("Hel"), NoneChunk, TextChunk("lo")>>,
      <<RaisingChunk, TextChunk("Hel")>>,
      <<TextChunk("")>> }

Chunks ==
    {TextChunk("Hel"), TextChunk("lo"), TextChunk(""), NoneChunk,
     RaisingChunk}

\* every stream of at most MaxChunks sample chunks
AnyStreams == UNION {[1..n -> Chunks] : n \in 0..MaxChunks}

(***************************************************************************)
(* The state.                                                              *)
(***************************************************************************)
VARIABLES
    message,        \* st.session_state["message"]
    api_key,        \* st.session_state["api_key"]
    pc,             \* where the run is: "idle" when none is in progress
    uploaded_files, \* script variables of the run in progress
    prompt_text,
    content_parts,
    token_count,    \* <<>> until count_tokens has returned, then <<n>>
    response_stream,\* the chunks the stream has yet to deliver
    full_text,
    exc,            \* <<>>, or <<[at, msg]>>: the exception the handler caught
    warned,         \* the page: the st.warning of line 128 is shown
    chat,           \* the page: the st.chat_message bubbles, top to bottom
    error_box,      \* the page: what st.error shows (line 300)
    status,         \* the page: state of the st.status container
    calls,          \* the model calls made by the run, in order
    delivered       \* the chunks the stream has delivered, in order

session == <<message, api_key>>
locals == <<uploaded_files, prompt_text, content_parts, token_count,
            response_stream, full_text, exc>>
page == <<warned, chat, error_box, status>>
world == <<calls, delivered>>
vars == <<session, pc, locals, page, world>>

Cursor == "\\u258c"
ErrorPrefix == "\\u26a0\\ufe0f System Error: "
HistoryHeader == "PREVIOUS CONVERSATION HISTORY:\n"
QueryPrefix == "CURRENT USER QUESTION: "
Indent == "                        "

Message(role, content) == [role |-> role, content |-> content]

(***************************************************************************)
(* Session state (lines 7-15, 142, 303).                                   *)
(***************************************************************************)
\* A reset that leaves the history as it is.
ResetKeepsHistory == message

reset_state == <<>>

AppendMessage(msgs, role, content) == Append(msgs, Message(role, content))

(***************************************************************************)
(* The page (lines 126-134, 143-144).                                      *)
(***************************************************************************)
WarnsWhenKeyPresent(key) == key # ""

ShowWarning(key) == key = ""

RenderHistory(msgs) ==
    [i \in 1..Len(msgs) |-> Message(msgs[i].role, msgs[i].content)]

(***************************************************************************)
(* Content assembly (lines 153-203).                                       *)
(***************************************************************************)
\* The suffix test without the lower() of line 162.
FileKindCaseSensitive(name) ==
    IF EndsWith(name, <<".", "p", "d", "f">>) THEN "pdf"
    ELSE IF \/ EndsWith(name, <<".", "t", "x", "t">>)
            \/ EndsWith(name, <<".", "m", "d">>) THEN "text"
    ELSE "skip"

FileKind(name) ==
    LET filename == Lower(name) IN
    IF EndsWith(filename, <<".", "p", "d", "f">>) THEN "pdf"
    ELSE IF \/ EndsWith(filename, <<".", "t", "x", "t">>)
            \/ EndsWith(filename, <<".", "m", "d">>) THEN "text"
    ELSE "skip"

\* types.Part.from_bytes(data, mime_type)
BytesPart(data) ==
    [part |-> "bytes", mime_type |-> "application/pdf", data |-> data]

\* a str element of content_parts
TextPart(s) == [part |-> "text", text |-> s]

\* the f-string of lines 177-181
WrapText(name, text_data) ==
    "\n" \o Indent \o "=== START OF FILE: " \o Join(name) \o " ===\n"
    \o Indent \o text_data \o "\n"
    \o Indent \o "=== END OF FILE ===\n"
    \o Indent

\* The loop of lines 160-182 from file i on: the parts appended, or the
\* UnicodeDecodeError that ends it.
RECURSIVE IngestFiles(_, _, _)
IngestFiles(files, i, parts) ==
    IF i > Len(files) THEN [ok |-> TRUE, parts |-> parts, error |-> ""]
    ELSE
    LET f == files[i]
        kind == FileKind(f.name)
    IN
    IF kind = "pdf" THEN
        IngestFiles(files, i + 1, Append(parts, BytesPart(f.data)))
    ELSE IF kind = "text" THEN
        LET d == Decode(f.data) IN
        IF d.ok THEN
            IngestFiles(files, i + 1,
                        Append(parts, TextPart(WrapText(f.name, d.text))))
        ELSE [ok |-> FALSE, parts |-> parts, error |-> d.error]
    ELSE IngestFiles(files, i + 1, parts)

\* A history block that takes every stored message, the live question too.
HistoryOfAll(msgs) ==
    LET Line(m) == (IF m.role = "human" THEN "User" ELSE "AI")
                   \o ": " \o m.content \o "\n"
        F[i \in 0..Len(msgs)] ==
            IF i = 0 THEN HistoryHeader ELSE F[i - 1] \o Line(msgs[i])
    IN F[Len(msgs)]

\* history_context of lines 190-194, msgs the stored messages
HistoryContext(msgs) ==
    LET Line(m) == (IF m.role = "human" THEN "User" ELSE "AI")
                   \o ": " \o m.content \o "\n"
        F[i \in 0..Len(msgs)] ==
            IF i = 0 THEN HistoryHeader ELSE F[i - 1] \o Line(msgs[i])
    IN IF msgs = <<>> THEN HistoryHeader ELSE F[Len(msgs) - 1]

\* current_query of line 202
CurrentQuery(prompt) == QueryPrefix \o prompt

(***************************************************************************)
(* Model calls, streaming and the handler (lines 205-303).                 *)
(***************************************************************************)
\* contents= of line 210
CountContents == content_parts

\* A generation request that leaves the first segment out.
GenerateContentsTrimmed == Tail(content_parts)

\* contents= of line 268
GenerateContents == content_parts

ModelCall(name, contents) == [call |-> name, contents |-> contents]

\* An accumulator that keeps only the newest chunk.
AccumulateNewest(text, piece) == piece

\* full_text += chunk.text (line 285)
Accumulate(text, piece) == text \o piece

\* The body of the loop (lines 282-290) for one chunk: the new full_text.
\* A chunk whose text is None or "" fails the test of line 284; one whose
\* text raises is passed over by line 288.
AfterChunk(text, chunk) ==
    IF chunk.kind = "text" /\ chunk.text # ""
    THEN Accumulate(text, chunk.text)
    ELSE text

\* answer of line 298
HandlerAnswer(e) == ErrorPrefix \o e

\* An exception e is raised at `at` inside the try of line 147: control
\* is at the except clause of line 296.
Raise(at, e) ==
    /\ exc' = <<[at |-> at, msg |-> e]>>
    /\ pc' = "except"
    /\ UNCHANGED <<session, uploaded_files, prompt_text, token_count,
                   response_stream, full_text, page, delivered>>

\* How many questions msgs holds: the entries line 142 appended.
NumQuestions(msgs) ==
    Cardinality({i \in 1..Len(msgs) : msgs[i].role = "human"})

(***************************************************************************)
(* Runs of the script.                                                     *)
(*                                                                         *)
(* The session takes input at any time.  An input that arrives while a run *)
(* is in progress stops that run at its next st.* call (the stop is not an *)
(* Exception, so neither except clause catches it): the run's variables    *)
(* are lost, st.session_state stays as the run left it, and the run for    *)
(* the input starts.  Rerun, Reset and Submit are those runs, from any     *)
(* point of a run in progress as well as between runs.                     *)
(***************************************************************************)
Init ==
    /\ message = <<>>
    /\ api_key = ""
    /\ pc = "idle"
    /\ uploaded_files = <<>>
    /\ prompt_text = ""
    /\ content_parts = <<>>
    /\ token_count = <<>>
    /\ response_stream = <<>>
    /\ full_text = ""
    /\ exc = <<>>
    /\ warned = ShowWarning("")
    /\ chat = <<>>
    /\ error_box = <<>>
    /\ status = "none"
    /\ calls = <<>>
    /\ delivered = <<>>

\* A run starts: what the run before it computed is gone.
FreshRun ==
    /\ content_parts' = <<>>
    /\ token_count' = <<>>
    /\ response_stream' = <<>>
    /\ full_text' = ""
    /\ exc' = <<>>
    /\ calls' = <<>>
    /\ delivered' = <<>>

\* Any interaction but a question or the clear button: a run with no
\* question (lines 12-138).
Rerun(key) ==
    /\ FreshRun
    /\ uploaded_files' = <<>>
    /\ prompt_text' = ""
    /\ api_key' = key
    /\ warned' = ShowWarning(key)
    /\ chat' = RenderHistory(message)
    /\ error_box' = <<>>
    /\ status' = "none"
    /\ pc' = "idle"
    /\ UNCHANGED message

\* The clear button: the callback (lines 7-9, 46), then a run with no
\* question.
Reset(key) ==
    /\ FreshRun
    /\ uploaded_files' = <<>>
    /\ prompt_text' = ""
    /\ message' = reset_state
    /\ api_key' = key
    /\ warned' = ShowWarning(key)
    /\ chat' = RenderHistory(message')
    /\ error_box' = <<>>
    /\ status' = "none"
    /\ pc' = "idle"

\* A question is submitted: lines 12-149.
Submit(key, files, prompt) ==
    /\ NumQuestions(message) < MaxTurns
    /\ FreshRun
    /\ api_key' = key
    /\ warned' = ShowWarning(key)
    /\ uploaded_files' = files
    /\ prompt_text' = prompt
    /\ message' = AppendMessage(message, "human", prompt)
    /\ chat' = Append(RenderHistory(message), Message("human", prompt))
    /\ error_box' = <<>>
    /\ status' = "running"
    /\ pc' = "client"

\* genai.Client(...) raises (line 152).
ClientRaises(e) ==
    /\ pc = "client"
    /\ Raise("client", e)
    /\ UNCHANGED <<content_parts, calls>>

\* Step 1: the client is built and the files ingested, up to the wait of
\* line 184 (lines 152-184).
IngestDocuments ==
    /\ pc = "client"
    /\ LET r == IngestFiles(uploaded_files, 1, <<>>) IN
        /\ content_parts' = r.parts
        /\ IF r.ok
           THEN /\ pc' = "history"
                /\ UNCHANGED <<session, uploaded_files, prompt_text,
                               token_count, response_stream, full_text, exc,
                               page, delivered>>
           ELSE Raise("decode", r.error)
    /\ UNCHANGED calls

\* Step 2: the history block is appended, up to the wait of line 197
\* (lines 188-197).
BuildHistory ==
    /\ pc = "history"
    /\ content_parts' =
           Append(content_parts, TextPart(HistoryContext(message)))
    /\ pc' = "query"
    /\ UNCHANGED <<session, uploaded_files, prompt_text, token_count,
                   response_stream, full_text, exc, page, world>>

\* Step 3: the question is appended (lines 201-207).
AddQuery ==
    /\ pc = "query"
    /\ content_parts' =
           Append(content_parts, TextPart(CurrentQuery(prompt_text)))
    /\ pc' = "count"
    /\ UNCHANGED <<session, uploaded_files, prompt_text, token_count,
                   response_stream, full_text, exc, page, world>>

\* count_tokens returns n (lines 208-213).
CountReturns(n) ==
    /\ pc = "count"
    /\ calls' = Append(calls, ModelCall("count_tokens", CountContents))
    /\ token_count' = <<n>>
    /\ pc' = "generate"
    /\ UNCHANGED <<session, uploaded_files, prompt_text, content_parts,
                   response_stream, full_text, exc, page, delivered>>

\* count_tokens raises.
CountRaises(e) ==
    /\ pc = "count"
    /\ calls' = Append(calls, ModelCall("count_tokens", CountContents))
    /\ Raise("count_tokens", e)
    /\ UNCHANGED content_parts

\* generate_content_stream returns a stream that will deliver s; the status
\* is updated and the answer's bubble opened (lines 266-278).
GenerateReturns(s) ==
    /\ pc = "generate"
    /\ calls' = Append(calls,
                       ModelCall("generate_content_stream", GenerateContents))
    /\ response_stream' = s
    /\ status' = "complete"
    /\ chat' = Append(chat, Message("ai", ""))
    /\ full_text' = ""
    /\ pc' = "stream"
    /\ UNCHANGED <<session, uploaded_files, prompt_text, content_parts,
                   token_count, exc, warned, error_box, delivered>>

\* generate_content_stream raises.
GenerateRaises(e) ==
    /\ pc = "generate"
    /\ calls' = Append(calls,
                       ModelCall("generate_content_stream", GenerateContents))
    /\ Raise("generate_content_stream", e)
    /\ UNCHANGED content_parts

\* The stream delivers its next chunk (lines 281-290).
ChunkArrives ==
    /\ pc = "stream"
    /\ response_stream # <<>>
    /\ LET chunk == Head(response_stream)
           text == AfterChunk(full_text, chunk)
       IN
        /\ response_stream' = Tail(response_stream)
        /\ delivered' = Append(delivered, chunk)
        /\ full_text' = text
        /\ chat' = IF chunk.kind = "text" /\ chunk.text # ""
                   THEN [chat EXCEPT ![Len(chat)].content = text \o Cursor]
                   ELSE chat
    /\ UNCHANGED <<session, pc, uploaded_files, prompt_text, content_parts,
                   token_count, exc, warned, error_box, status, calls>>

\* Fetching the next chunk raises (line 281).
StreamRaises(e) ==
    /\ pc = "stream"
    /\ Raise("stream", e)
    /\ UNCHANGED <<content_parts, calls>>

\* The stream is exhausted: final render and append (lines 293-294, 303).
StreamEnds ==
    /\ pc = "stream"
    /\ response_stream = <<>>
    /\ chat' = [chat EXCEPT ![Len(chat)].content = full_text]
    /\ message' = AppendMessage(message, "ai", full_text)
    /\ pc' = "done"
    /\ UNCHANGED <<api_key, locals, warned, error_box, status, world>>

\* The except block and the append after it (lines 296-303).
HandleException ==
    /\ pc = "except"
    /\ status' = "error"
    /\ error_box' = <<HandlerAnswer(exc[1].msg)>>
    /\ message' = AppendMessage(message, "ai", HandlerAnswer(exc[1].msg))
    /\ pc' = "done"
    /\ UNCHANGED <<api_key, locals, warned, chat, world>>

\* The run is over: its variables are gone, the page stays.
EndRun ==
    /\ pc = "done"
    /\ pc' = "idle"
    /\ uploaded_files' = <<>>
    /\ prompt_text' = ""
    /\ FreshRun
    /\ UNCHANGED <<session, page>>

Next ==
    \/ \E key \in Keys : Rerun(key)
    \/ \E key \in Keys : Reset(key)
    \/ \E key \in Keys, files \in Uploads, prompt \in Prompts :
           Submit(key, files, prompt)
    \/ \E e \in ApiErrors : ClientRaises(e)
    \/ IngestDocuments
    \/ BuildHistory
    \/ AddQuery
    \/ \E n \in TokenCounts : CountReturns(n)
    \/ \E e \in ApiErrors : CountRaises(e)
    \/ \E s \in Streams : GenerateReturns(s)
    \/ \E e \in ApiErrors : GenerateRaises(e)
    \/ ChunkArrives
    \/ \E e \in ApiErrors : StreamRaises(e)
    \/ StreamEnds
    \/ HandleException
    \/ EndRun

Spec == Init /\ [][Next]_vars

\* The script over every upload of the samples, for the first two
\* questions after a start or reset, answered by one stream.
NextUploads ==
    \/ \E key \in Keys : Reset(key)
    \/ \E key \in Keys, files \in AnyUploads, prompt \in Prompts :
           NumQuestions(message) <= 1 /\ Submit(key, files, prompt)
    \/ \E e \in ApiErrors : ClientRaises(e)
    \/ IngestDocuments
    \/ BuildHistory
    \/ AddQuery
    \/ \E n \in TokenCounts : CountReturns(n)
    \/ \E e \in ApiErrors : CountRaises(e)
    \/ GenerateReturns(<<TextChunk("Hel"), TextChunk("lo")>>)
    \/ \E e \in ApiErrors : GenerateRaises(e)
    \/ ChunkArrives
    \/ \E e \in ApiErrors : StreamRaises(e)
    \/ StreamEnds
    \/ HandleException
    \/ EndRun

SpecUploads == Init /\ [][NextUploads]_vars

\* The script over every stream of the sample chunks, for the first
\* question after a start or reset, with nothing uploaded.
NextStreams ==
    \/ \E key \in Keys : Reset(key)
    \/ \E key \in Keys, prompt \in Prompts :
           message = <<>> /\ Submit(key, <<>>, prompt)
    \/ \E e \in ApiErrors : ClientRaises(e)
    \/ IngestDocuments
    \/ BuildHistory
    \/ AddQuery
    \/ \E n \in TokenCounts : CountReturns(n)
    \/ \E e \in ApiErrors : CountRaises(e)
    \/ \E s \in AnyStreams : GenerateReturns(s)
    \/ \E e \in ApiErrors : GenerateRaises(e)
    \/ ChunkArrives
    \/ \E e \in ApiErrors : StreamRaises(e)
    \/ StreamEnds
    \/ HandleException
    \/ EndRun

SpecStreams == Init /\ [][NextStreams]_vars

(***************************************************************************)
(* What the claims expect, written from their wording and from what        *)
(* Python gives on the sample inputs, not from the operators above.        *)
(***************************************************************************)
Last(seq) == seq[Len(seq)]
AllButLast(seq) == SubSeq(seq, 1, Len(seq) - 1)

\* The segment each sample file is to contribute (none for a .csv).
ExpectedFilePart(f) ==
    IF f = ReportPdf THEN
        <<[part |-> "bytes", mime_type |-> "application/pdf",
           data |-> <<37, 80, 255>>]>>
    ELSE IF f = NotesMd THEN
        <<[part |-> "text", text |->
           "\n                        === START OF FILE: N.Md ===\n                        Hi\n                        === END OF FILE ===\n                        "]>>
    ELSE IF f = CafeTxt THEN
        <<[part |-> "text", text |->
           "\n                        === START OF FILE: c.txt ===\n                        \\u{233}\n                        === END OF FILE ===\n                        "]>>
    ELSE <<>>

RECURSIVE ExpectedFileParts(_)
ExpectedFileParts(files) ==
    IF files = <<>> THEN <<>>
    ELSE ExpectedFilePart(Head(files)) \o ExpectedFileParts(Tail(files))

RECURSIVE ExpectedLines(_)
ExpectedLines(msgs) ==
    IF msgs = <<>> THEN ""
    ELSE (CASE Head(msgs).role = "human" -> "User: "
            [] Head(msgs).role = "ai" -> "AI: ")
         \o Head(msgs).content \o "\n" \o ExpectedLines(Tail(msgs))

ExpectedHistory(msgs) ==
    "PREVIOUS CONVERSATION HISTORY:\n" \o ExpectedLines(msgs)

ExpectedError(msg) == "\\u26a0\\ufe0f System Error: " \o msg

\* The sample text files whose bytes are not UTF-8, and str(e) of the
\* UnicodeDecodeError Python raises on each.
ExpectedDecodeError(f) ==
    IF f = BadTxt
    THEN "'utf-8' codec can't decode byte 0xff in position 1: invalid start byte"
    ELSE "'utf-8' codec can't decode byte 0xc3 in position 0: unexpected end of data"

HasUndecodableText(files) ==
    \E i \in 1..Len(files) : files[i] \in {BadTxt, CutMd}

FirstUndecodable(files) ==
    files[CHOOSE i \in 1..Len(files) :
              /\ files[i] \in {BadTxt, CutMd}
              /\ \A j \in 1..(i - 1) : files[j] \notin {BadTxt, CutMd}]

RECURSIVE TextsInOrder(_)
TextsInOrder(chunks) ==
    IF chunks = <<>> THEN ""
    ELSE (IF Head(chunks).kind = "text" THEN Head(chunks).text ELSE "")
         \o TextsInOrder(Tail(chunks))

\* The messages stored before the question of the run in progress: at
\* "done" the question and its answer are the last two stored.
StoredBeforeQuestion ==
    IF pc = "done" THEN SubSeq(message, 1, Len(message) - 2)
    ELSE AllButLast(message)

Assembled == pc \in {"count", "generate", "stream"}
Failed == exc # <<>>

(***************************************************************************)
(* The claims.                                                             *)
(***************************************************************************)
\* C1: every payload sent to the model (to count_tokens and to
\* generate_content_stream) is one segment per uploaded file whose
\* lowercased name ends in .pdf, .txt or .md, in upload order, nothing for
\* a file with another suffix, then one history segment, then one
\* current-question segment, which is last.
C1_PayloadOrder ==
    \A k \in 1..Len(calls) :
        LET p == calls[k].contents
            want == ExpectedFileParts(uploaded_files)
            n == Len(want)
        IN  /\ Len(p) = n + 2
            /\ SubSeq(p, 1, n) = want
            /\ p[n + 1] = [part |-> "text",
                           text |-> ExpectedHistory(StoredBeforeQuestion)]
            /\ p[n + 2] = [part |-> "text",
                           text |-> "CURRENT USER QUESTION: " \o prompt_text]

\* A second turn with a skipped .csv in front of a text file has made both
\* calls with three segments.
C1_Witness ==
    /\ pc = "stream"
    /\ Len(calls) = 2
    /\ uploaded_files = <<DataCsv, CafeTxt>>
    /\ Len(message) = 3
    /\ Len(calls[1].contents) = 3

\* C2: the history segment built for a turn has one line per message
\* stored before the question, in stored order, User for human and AI for
\* ai; the question being answered is the last stored message and is not in
\* it; on the first turn after start or reset it is the header alone.
C2_HistoryExcludesQuestion ==
    Assembled =>
        LET h == content_parts[Len(content_parts) - 1] IN
        /\ Last(message) = [role |-> "human", content |-> prompt_text]
        /\ h = [part |-> "text",
                text |-> ExpectedHistory(AllButLast(message))]
        /\ Len(message) = 1 =>
               h.text = "PREVIOUS CONVERSATION HISTORY:\n"

\* The history of a second turn is built: a question and an answer are
\* stored before the question being answered.
C2_Witness ==
    /\ pc = "count"
    /\ Len(message) = 3
    /\ message[1].role = "human"
    /\ message[2] = [role |-> "ai", content |-> "Hello"]
    /\ content_parts[Len(content_parts) - 1].text =
           "PREVIOUS CONVERSATION HISTORY:\nUser: q1\nAI: Hello\n"

\* C3: when count_tokens, generate_content_stream or the iteration over
\* the stream raises, the turn still completes: the failure is caught and
\* the next thing the session does is store, after the question, one ai
\* entry whose content is the formatted error, whatever was streamed
\* before, and show it; the run is then at its end.
C3_FailureBecomesAnswer ==
    [][ (/\ pc = "except"
         /\ exc[1].at \in {"count_tokens", "generate_content_stream",
                           "stream"}) =>
            /\ Last(message) = [role |-> "human", content |-> prompt_text]
            /\ message' = Append(message,
                   [role |-> "ai", content |-> ExpectedError(exc[1].msg)])
            /\ error_box' = <<ExpectedError(exc[1].msg)>>
            /\ pc' = "done"
      ]_vars

\* C4: once a turn has completed, the chat bubbles on the page are the
\* stored messages, and no partial streamed text or typing indicator is
\* shown.  Stated in its weakest reading: an answer shown in the error box
\* counts as shown, an empty bubble counts as nothing; every bubble with
\* text is the stored message at its place.
C4_TranscriptEqualsStore ==
    pc = "done" =>
        \A i \in 1..Len(chat) :
            chat[i].content # "" =>
                /\ i <= Len(message)
                /\ chat[i] = message[i]

\* C5: when the stream does not fail, the stored ai message is the
\* concatenation, in arrival order, of the texts of the chunks that carry
\* text; a chunk without text, or whose text raises, is passed over and the
\* chunks after it are still consumed; the typing indicator is not stored.
C5_AnswerIsConcatenation ==
    (pc = "done" /\ ~Failed) =>
        /\ response_stream = <<>>
        /\ Last(message) =
               [role |-> "ai", content |-> TextsInOrder(delivered)]
        /\ Last(chat) = Last(message)

\* A stream whose first chunk raises on .text and whose next two carry
\* text has been consumed to its end.
C5_Witness ==
    /\ pc = "done"
    /\ ~Failed
    /\ delivered = <<RaisingChunk, TextChunk("lo"), TextChunk("Hel")>>
    /\ Last(message).content = "loHel"

\* C6: a step changes the stored messages only by clearing them or by
\* appending one entry; the clear button empties them whatever they held
\* and can be used at any time, a run in progress included.
C6_OnlyResetAndAppend ==
    [][ /\ \/ message' = message
           \/ message' = <<>>
           \/ /\ Len(message') = Len(message) + 1
              /\ SubSeq(message', 1, Len(message)) = message
        /\ (\E key \in Keys : Reset(key)) => message' = <<>>
        /\ ENABLED Reset(api_key)
      ]_vars

\* A turn is stored, the answer of a second one is streaming, and the
\* clear button can be used.
C6_Witness ==
    /\ pc = "stream"
    /\ Len(message) = 3
    /\ full_text = "Hel"
    /\ ENABLED (Reset(api_key) /\ message' = <<>> /\ message' # message)

\* C7: in a turn count_tokens is called first, generate_content_stream
\* only after count_tokens returned, each at most once; after a failure no
\* call follows; the generation call gets the very segments that were
\* counted, whatever the count.
C7_CallOrder ==
    /\ Len(calls) <= 2
    /\ Len(calls) >= 1 =>
           calls[1] = [call |-> "count_tokens", contents |-> content_parts]
    /\ Len(calls) = 2 =>
           /\ token_count # <<>>
           /\ calls[2].call = "generate_content_stream"
           /\ calls[2].contents = calls[1].contents
    /\ (token_count = <<>> /\ ~Failed) => calls = <<>>
    /\ Failed =>
           /\ pc \in {"except", "done"}
           /\ Len(calls) =
                  (CASE exc[1].at = "count_tokens" -> 1
                     [] exc[1].at \in {"generate_content_stream",
                                       "stream"} -> 2
                     [] OTHER -> 0)

\* Both calls have been made, with the larger token count and a payload of
\* four segments.
C7_Witness ==
    /\ Len(calls) = 2
    /\ token_count = <<900>>
    /\ Len(calls[2].contents) = 4
    /\ calls[1].call = "count_tokens"

\* C8: with an empty API key the warning is on the page from the start of
\* the turn, hence before any model call of that turn.
C8_WarningBeforeCalls ==
    (api_key = "" /\ (pc # "idle" \/ calls # <<>>)) => warned

\* A model call has been made with an empty key, the warning showing.
C8_Witness ==
    /\ api_key = ""
    /\ Len(calls) >= 1
    /\ warned

\* C9: when an uploaded .txt or .md file is not valid UTF-8 the assembly
\* fails: no model call is made in the turn, and once the decode has
\* failed the next thing the session does is report it (error status, the
\* decode error in the error box), the run then being at its end.
C9_DecodeFailureReported ==
    [][ /\ HasUndecodableText(uploaded_files) => calls = <<>>
        /\ (pc = "except" /\ exc[1].at = "decode") =>
               /\ calls' = <<>>
               /\ status' = "error"
               /\ error_box' = <<ExpectedError(ExpectedDecodeError(
                                     FirstUndecodable(uploaded_files)))>>
               /\ pc' = "done"
      ]_vars

\* C10: whenever the session is ready for the next input (no run in
\* progress, or the run at its end) the stored messages have even length
\* and alternate human, ai, human, ai: every question stored is followed
\* by its answer before the next input is processed.
C10_Alternation ==
    pc \in {"idle", "done"} =>
        /\ Len(message) % 2 = 0
        /\ \A i \in 1..Len(message) :
               message[i].role = (IF i % 2 = 1 THEN "human" ELSE "ai")

=============================================================================
